---- MODULE Spec2Model ----
(***************************************************************************)
(* Model of the crop colour extractor: the three scripts                   *)
(* extract_crop_colors.py (plain), extract_crop_colors_improved.py         *)
(* (filtered) and extract_crop_colors_hsv.py (hsv).                        *)
(*                                                                         *)
(*   Spec        main(): the per-URL loop, the image cache, the output     *)
(*   SpecLoad    download_image(): conversion of one decoded pixel to RGB  *)
(*   SpecEngine  dominant_color / dominant_color_hsv on one pixel sample   *)
(*                                                                         *)
(* A pixel sample is a histogram over a small palette: every step of the   *)
(* engine (the two filters, their 10% fallbacks, the scores) reads only    *)
(* the colours and their counts.  The sample is the array of the resized   *)
(* image (img_small); its size stands for resize[0]*resize[1].             *)
(***************************************************************************)
EXTENDS Integers, Sequences, FiniteSets, TLC

VARIABLES
    strategy,        \* which script runs: "plain", "filtered" or "hsv"
    \* ---- main() and the cache
    rows,            \* the input table df: sequence of [crop_name, image_url]
    unique_urls,     \* df["image_url"].dropna().unique()
    idx,             \* position of the for loop in unique_urls
    url_to_color,    \* the dict built by the loop
    pc,              \* where main() is
    dirExists,       \* whether CACHE_DIR exists
    files,           \* the cache files, by URL (the sha256 name is injective)
    resp,            \* resp.content while download_image holds it
    output,          \* the rows written by to_csv, or NoOutput
    run,             \* number of the run (the cache outlives a run)
    hist,            \* per-URL bookkeeping of this run and of earlier ones
    aborted,         \* whether an earlier run was terminated before its end
    \* ---- download_image() on one pixel
    lpc, mode, stored, loaded,
    \* ---- dominant_color() on one sample
    epc, pixels, filtered_pixels, labels, result

vars == <<strategy, rows, unique_urls, idx, url_to_color, pc, dirExists, files,
          resp, output, run, hist, aborted, lpc, mode, stored, loaded,
          epc, pixels, filtered_pixels, labels, result>>

mainVars == <<rows, unique_urls, idx, url_to_color, pc, dirExists, files,
              resp, output, run, hist, aborted>>
loadVars == <<lpc, mode, stored, loaded>>
engVars  == <<epc, pixels, filtered_pixels, labels, result>>

Strategies == {"plain", "filtered", "hsv"}

(***************************************************************************)
(* Bounds of the model.                                                    *)
(***************************************************************************)
MaxPix == 10        \* largest sample size (stands for 120*120 / 150*150)
MaxDistinct == 3    \* most distinct colours in one sample (at most k)
MaxRows == 2        \* most rows of the input table
MaxRuns == 2        \* runs of main() over the same cache directory
FullLen == 2        \* length of a complete response body, in chunks

(***************************************************************************)
(* Colours.                                                                *)
(***************************************************************************)
Black == <<0, 0, 0>>
White == <<255, 255, 255>>
Gray  == <<200, 200, 200>>      \* light gray, saturation 0
Red   == <<255, 0, 0>>          \* vivid red, saturation 100
Pale  == <<200, 170, 170>>      \* saturation exactly 15 on the 0-100 scale

Palette == {Black, White, Gray, Red, Pale}

Max2(a, b) == IF a >= b THEN a ELSE b
Min2(a, b) == IF a <= b THEN a ELSE b
Mx(c) == Max2(c[1], Max2(c[2], c[3]))
Mn(c) == Min2(c[1], Min2(c[2], c[3]))

HexDigits == <<"0", "1", "2", "3", "4", "5", "6", "7",
               "8", "9", "a", "b", "c", "d", "e", "f">>
Hex2(n) == HexDigits[(n \div 16) + 1] \o HexDigits[(n % 16) + 1]
\* f"#{r:02x}{g:02x}{b:02x}"
HexColor(c) == "#" \o Hex2(c[1]) \o Hex2(c[2]) \o Hex2(c[3])

(***************************************************************************)
(* Samples.                                                                *)
(***************************************************************************)
Count(h) == h[Black] + h[White] + h[Gray] + h[Red] + h[Pale]
Support(h) == {c \in Palette : h[c] > 0}
Keep(h, S) == [c \in Palette |-> IF c \in S THEN h[c] ELSE 0]
Samples == {h \in [Palette -> 0..MaxPix] :
              /\ Count(h) \in 1..MaxPix
              /\ Cardinality(Support(h)) <= MaxDistinct}

(***************************************************************************)
(* Pixel filters.                                                          *)
(***************************************************************************)
threshold == 20
\* is_extreme_color(r, g, b, threshold=20)
is_extreme_color(c) ==
    \/ (c[1] < threshold /\ c[2] < threshold /\ c[3] < threshold)
    \/ (c[1] > 255 - threshold /\ c[2] > 255 - threshold /\ c[3] > 255 - threshold)

\* the list built by the loop "if not is_extreme_color(r, g, b): append"
NotExtreme(px) == Keep(px, {c \in Palette : ~is_extreme_color(c)})

ExtremeFilterNoFallback(px) == NotExtreme(px)
\* if len(filtered_pixels) < len(pixels) * 0.1: filtered_pixels = pixels
\* (len(pixels) * 0.1 is exact for the sizes in use, so n < len*0.1 iff 10n < len)
ExtremeFilter(px) ==
    IF Count(NotExtreme(px)) * 10 < Count(px) THEN px ELSE NotExtreme(px)

SatThreshold == 15
\* hsv_pixels[:, 1] > 15, with s = 100 * (maxc - minc) / maxc and s = 0 for black
high_saturation(c) == Mx(c) > 0 /\ 100 * (Mx(c) - Mn(c)) > SatThreshold * Mx(c)
HighSat(fp) == Keep(fp, {c \in Palette : high_saturation(c)})

\* if high_saturation_mask.sum() > len(hsv_pixels) * 0.1: apply the mask;
\* if len(hsv_pixels) == 0: fall back to every pixel
LowSatFilter(px, fp) ==
    LET kept == IF Count(HighSat(fp)) * 10 > Count(fp) THEN HighSat(fp) ELSE fp
    IN  IF Count(kept) = 0 THEN px ELSE kept

(***************************************************************************)
(* Clustering.  KMeans is run on a sample with at most k distinct colours: *)
(* k-means++ seeding then puts one centre on each distinct colour, every   *)
(* colour is its own cluster, and the labels in use are 0..d-1 (a point    *)
(* at equal distance from two centres gets the lower label).  Which colour *)
(* gets which label depends on the seeding: it is a choice of the model.   *)
(***************************************************************************)
KPlain == 4
KFiltered == 5

\* plain: n_clusters=k; filtered and hsv: n_clusters=min(k, len(sample))
n_clusters(s, sample) ==
    IF s = "plain" THEN KPlain ELSE Min2(KFiltered, Count(sample))

Bijections(S, T) == {f \in [S -> T] : \A a, b \in S : a # b => f[a] # f[b]}
NoLabels == [c \in {} |-> 0]
Labelings(sample) ==
    Bijections(Support(sample), 0..(Cardinality(Support(sample)) - 1))

\* the colours in the order of np.unique(labels)
ByLabel(sample, lab) ==
    [i \in 1..Cardinality(Support(sample)) |->
        CHOOSE c \in Support(sample) : lab[c] = i - 1]

(***************************************************************************)
(* Scores, as exact fractions <<numerator, denominator>>.                  *)
(***************************************************************************)
ScoreCountOnly(c, n) == <<n, 1>>
\* count * (1 + saturation * 2), saturation = (maxc - minc) / maxc  (0 for black)
\* count * (1 + avg_s / 50),   avg_s = 100 * (maxc - minc) / maxc
Score(c, n) ==
    IF Mx(c) = 0 THEN <<n, 1>> ELSE <<n * (Mx(c) + 2 * (Mx(c) - Mn(c))), Mx(c)>>

Leq(a, b) == a[1] * b[2] <= b[1] * a[2]

\* counts.argmax() and max(cluster_info, key=...): the first maximum
FirstMax(scores) ==
    CHOOSE i \in DOMAIN scores :
        /\ \A j \in DOMAIN scores : Leq(scores[j], scores[i])
        /\ \A j \in DOMAIN scores : j < i => ~Leq(scores[i], scores[j])

\* plain: counts.argmax(), then cluster_centers_[dominant_idx]
SelectPlain(sample, lab) ==
    LET cs == ByLabel(sample, lab)
        counts == [i \in DOMAIN cs |-> <<sample[cs[i]], 1>>]
    IN  cs[FirstMax(counts)]

\* filtered and hsv: max(cluster_info, key=lambda x: x['score'])
SelectScored(sample, lab) ==
    LET cs == ByLabel(sample, lab)
        scores == [i \in DOMAIN cs |-> Score(cs[i], sample[cs[i]])]
    IN  cs[FirstMax(scores)]

(***************************************************************************)
(* hsv: the representative is rebuilt from the mean hue, saturation and    *)
(* value by hsv_to_rgb, which truncates: int(r*255).  The means are        *)
(* float32; a channel whose value is not exact in binary (anything but 0   *)
(* and 255) can come back one lower.                                       *)
(***************************************************************************)
Trunc(x) == IF x = 0 \/ x = 255 THEN {x} ELSE {x - 1, x}
hsv_to_rgb(c) == {<<r, g, b>> : r \in Trunc(c[1]), g \in Trunc(c[2]), b \in Trunc(c[3])}

\* every colour the strategy can return for the sample img_small holds
DominantColors(s, px) ==
    IF s = "plain"
    THEN {HexColor(SelectPlain(px, lab)) : lab \in Labelings(px)}
    ELSE IF s = "filtered"
    THEN LET fp == ExtremeFilter(px)
         IN  {HexColor(SelectScored(fp, lab)) : lab \in Labelings(fp)}
    ELSE LET fp == LowSatFilter(px, ExtremeFilter(px))
         IN  UNION {{HexColor(rgb) : rgb \in hsv_to_rgb(SelectScored(fp, lab))} :
                        lab \in Labelings(fp)}

(***************************************************************************)
(* SpecEngine: dominant_color / dominant_color_hsv, step by step, on every *)
(* sample within the bounds.                                               *)
(***************************************************************************)
NoOutput == [written |-> FALSE, rows |-> <<>>]
NoHist == [u \in {} |-> 0]

MainIdle ==
    /\ rows = <<>> /\ unique_urls = <<>> /\ idx = 0 /\ url_to_color = NoHist
    /\ pc = "idle" /\ dirExists = FALSE /\ files = NoHist /\ resp = "none"
    /\ output = NoOutput /\ run = 0 /\ hist = NoHist /\ aborted = FALSE
LoadIdle == lpc = "idle" /\ mode = "RGB" /\ stored = <<0, 0, 0, 255>> /\ loaded = <<>>
EngIdle ==
    /\ epc = "idle" /\ pixels = NoHist /\ filtered_pixels = NoHist
    /\ labels = NoLabels /\ result = ""

\* img_small = img.resize(resize); pixels = arr.reshape(-1, 3)
EngInit ==
    /\ strategy \in Strategies
    /\ MainIdle /\ LoadIdle
    /\ epc = "resized"
    /\ pixels \in Samples
    /\ filtered_pixels = NoHist
    /\ labels = NoLabels
    /\ result = ""

\* plain: the sample is every pixel
TakeAll ==
    /\ epc = "resized" /\ strategy = "plain"
    /\ filtered_pixels' = pixels
    /\ epc' = "sampled"
    /\ UNCHANGED <<strategy, pixels, labels, result, mainVars, loadVars>>

\* filtered and hsv: the extreme-luminance filter and its fallback
FilterExtreme ==
    /\ epc = "resized" /\ strategy # "plain"
    /\ filtered_pixels' = ExtremeFilter(pixels)
    /\ epc' = IF strategy = "hsv" THEN "extreme_done" ELSE "sampled"
    /\ UNCHANGED <<strategy, pixels, labels, result, mainVars, loadVars>>

\* hsv: the low-saturation filter and its fallback
FilterLowSat ==
    /\ epc = "extreme_done"
    /\ filtered_pixels' = LowSatFilter(pixels, filtered_pixels)
    /\ epc' = "sampled"
    /\ UNCHANGED <<strategy, pixels, labels, result, mainVars, loadVars>>

\* KMeans(n_clusters=...).fit_predict(sample): raises on an empty sample
Fit ==
    /\ epc = "sampled"
    /\ IF n_clusters(strategy, filtered_pixels) = 0
               \/ Cardinality(Support(filtered_pixels)) > n_clusters(strategy, filtered_pixels)
       THEN /\ epc' = "raised"
            /\ result' = "None"
            /\ labels' = labels
       ELSE /\ \E lab \in Labelings(filtered_pixels) : labels' = lab
            /\ epc' = "clustered"
            /\ result' = result
    /\ UNCHANGED <<strategy, pixels, filtered_pixels, mainVars, loadVars>>

\* score the clusters, pick the best, format it
Select ==
    /\ epc = "clustered"
    /\ result' \in
         IF strategy = "plain"
         THEN {HexColor(SelectPlain(filtered_pixels, labels))}
         ELSE IF strategy = "filtered"
         THEN {HexColor(SelectScored(filtered_pixels, labels))}
         ELSE {HexColor(rgb) : rgb \in hsv_to_rgb(SelectScored(filtered_pixels, labels))}
    /\ epc' = "done"
    /\ UNCHANGED <<strategy, pixels, filtered_pixels, labels, mainVars, loadVars>>

EngNext ==
    \/ TakeAll
    \/ FilterExtreme
    \/ FilterLowSat
    \/ Fit
    \/ Select

SpecEngine == EngInit /\ [][EngNext]_vars

Sampled == epc \in {"sampled", "clustered", "done", "raised"}

\* the sample is 70% light gray and 30% vivid red
GrayRed7030 ==
    /\ Support(pixels) = {Gray, Red}
    /\ pixels[Gray] * 10 = 7 * Count(pixels)
    /\ pixels[Red] * 10 = 3 * Count(pixels)

\* C8: on a sample that is 70% light gray and 30% vivid red, the filtered and
\* the hsv strategy return the red, the plain strategy returns the gray.
C8_SaturationPreference ==
    (epc = "done" /\ GrayRed7030) =>
        result = IF strategy = "plain" THEN HexColor(Gray) ELSE HexColor(Red)

C8_Witness ==
    /\ epc = "done" /\ GrayRed7030 /\ strategy = "filtered"
    /\ Cardinality(Support(filtered_pixels)) = 2
    /\ result = "#ff0000"

\* the sample the claimed rule gives: a filter result is dropped exactly when it
\* retains strictly less than 10% of its input, and the low-saturation filter
\* drops exactly the pixels whose saturation is below 15
ClaimedFallback(inp, kept) == IF Count(kept) * 10 < Count(inp) THEN inp ELSE kept
ClaimedSample ==
    LET fp == ClaimedFallback(pixels, NotExtreme(pixels))
        sat15 == {c \in Palette : Mx(c) > 0 /\ 100 * (Mx(c) - Mn(c)) >= 15 * Mx(c)}
    IN  IF strategy = "filtered" THEN fp ELSE ClaimedFallback(fp, Keep(fp, sat15))

\* C9: both filters fall back exactly when strictly less than 10% of the input is
\* retained (at exactly 10% the filter result is used), and the low-saturation
\* filter drops exactly the pixels with saturation below 15.
C9_FallbackBoundary ==
    (Sampled /\ strategy # "plain") => filtered_pixels = ClaimedSample

AllExtreme == \A c \in Support(pixels) : is_extreme_color(c)

Modes == {"RGB", "RGBA", "LA", "L"}
AlphaModes == {"RGBA", "LA"}
Levels == {0, 10, 255}
Alphas == {0, 128, 255}
StoredPixels(m) ==
    {p \in Levels \X Levels \X Levels \X Alphas :
        /\ (m \in {"LA", "L"} => p[1] = p[2] /\ p[2] = p[3])
        /\ (m \notin AlphaModes => p[4] = 255)}

Rgb(p) == <<p[1], p[2], p[3]>>

\* img.convert("RGB"): the colour channels are copied, alpha is dropped
ConvertRGB(p) == Rgb(p)

\* one channel of Image.paste(im, mask=...): out*(255-mask) + in*mask over 255
Blend(out, in, mask) ==
    LET t == out * (255 - mask) + in * mask + 128
    IN  ((t \div 256) + t) \div 256

PasteNoMask(bg, p) == Rgb(p)
\* background.paste(img, mask=img.split()[-1])
Paste(bg, p) ==
    <<Blend(bg[1], p[1], p[4]), Blend(bg[2], p[2], p[4]), Blend(bg[3], p[3], p[4])>>

LoadInit ==
    /\ strategy \in Strategies
    /\ MainIdle /\ EngIdle
    /\ lpc = "opened"
    /\ mode \in Modes
    /\ stored \in StoredPixels(mode)
    /\ loaded = <<>>

\* plain: img = img.convert("RGB"), whatever the mode
LoadPlain ==
    /\ lpc = "opened" /\ strategy = "plain"
    /\ loaded' = ConvertRGB(stored)
    /\ lpc' = "loaded"
    /\ UNCHANGED <<strategy, mode, stored, mainVars, engVars>>

\* filtered and hsv, mode RGBA: paste on a white background through the alpha
LoadComposite ==
    /\ lpc = "opened" /\ strategy # "plain" /\ mode = "RGBA"
    /\ loaded' = Paste(White, stored)
    /\ lpc' = "loaded"
    /\ UNCHANGED <<strategy, mode, stored, mainVars, engVars>>

\* filtered and hsv, any other mode but RGB: img.convert('RGB')
LoadConvert ==
    /\ lpc = "opened" /\ strategy # "plain" /\ mode \notin {"RGBA", "RGB"}
    /\ loaded' = ConvertRGB(stored)
    /\ lpc' = "loaded"
    /\ UNCHANGED <<strategy, mode, stored, mainVars, engVars>>

\* filtered and hsv, mode RGB: the image is returned as decoded
LoadKeep ==
    /\ lpc = "opened" /\ strategy # "plain" /\ mode = "RGB"
    /\ loaded' = Rgb(stored)
    /\ lpc' = "loaded"
    /\ UNCHANGED <<strategy, mode, stored, mainVars, engVars>>

LoadNext ==
    \/ LoadPlain
    \/ LoadComposite
    \/ LoadConvert
    \/ LoadKeep

SpecLoad == LoadInit /\ [][LoadNext]_vars

\* C7 as claimed: in every strategy and every mode with an alpha channel a fully
\* transparent pixel loads as pure white and a fully opaque one keeps its R,G,B.
C7_AlphaEveryStrategy ==
    (lpc = "loaded" /\ mode \in AlphaModes) =>
        /\ stored[4] = 0 => loaded = White
        /\ stored[4] = 255 => loaded = Rgb(stored)

\* C7 amended: the filtered and hsv strategies composite mode RGBA over white
\* (transparent -> white, opaque -> its R,G,B); the plain strategy, and every
\* strategy on another alpha mode, drop the alpha and keep the stored colour.
C7_AlphaComposite ==
    (lpc = "loaded" /\ mode \in AlphaModes) =>
        IF strategy # "plain" /\ mode = "RGBA"
        THEN /\ stored[4] = 0 => loaded = White
             /\ stored[4] = 255 => loaded = Rgb(stored)
        ELSE loaded = Rgb(stored)

C7_Witness ==
    /\ lpc = "loaded" /\ strategy = "hsv" /\ mode = "RGBA"
    /\ stored = <<10, 0, 255, 0>> /\ loaded = White

(***************************************************************************)
(* Spec: main().  One run reads the table, walks the distinct URLs and     *)
(* writes the output; the cache directory outlives the run, so a later run *)
(* (NewRun) starts from the files the earlier ones left.                   *)
(***************************************************************************)
URLs == {"u1", "u2"}
NaN == "NaN"                       \* a missing image_url
\* the crop_name column: one name per row
CropName(i) == IF i % 2 = 1 THEN "rice" ELSE "corn"
Inputs ==
    UNION {{[i \in 1..n |-> [crop_name |-> CropName(i), image_url |-> col[i]]] :
               col \in [1..n -> URLs \cup {NaN}]} : n \in 0..MaxRows}

\* what a 2xx response can carry: an image, or bytes that are no image
Bodies == {"redgray", "corrupt"}
Responses == {"timeout", "http_error"} \cup Bodies
NoFile == [body |-> "absent", len |-> 0]
Empty == [body |-> "", len |-> 0]
\* the first n chunks of a body (every body starts differently)
Prefix(b, n) == IF n = 0 THEN Empty ELSE [body |-> b, len |-> n]

\* the sample of the decoded, resized image
ImagePixels(b) == [c \in Palette |-> IF c = Gray THEN 7 ELSE IF c = Red THEN 3 ELSE 0]
\* Image.open(BytesIO(...)) and the conversion succeed on a whole image only
Decodable(content) == content.body = "redgray" /\ content.len = FullLen

None == "None"
Unread == [body |-> "unread", len |-> 0]
PerUrlFailures == {"network", "decode", "cluster"}
CacheFaults == {"cache_dir", "cache_write", "cache_read"}

IsCaughtNetworkOnly(kind) == kind = "network"
IsCaughtNoOSError(kind) == kind \in PerUrlFailures
\* except Exception: everything but KeyboardInterrupt / SystemExit
IsCaught(kind) == kind \in PerUrlFailures \cup CacheFaults

NeedsFetchAlways(fs, u) == TRUE
\* if not os.path.exists(path)
NeedsFetch(fs, u) == fs[u] = NoFile

RECURSIVE UniqueFrom(_, _)
UniqueFrom(seq, seen) ==
    IF seq = <<>> THEN <<>>
    ELSE IF Head(seq) \in seen THEN UniqueFrom(Tail(seq), seen)
    ELSE <<Head(seq)>> \o UniqueFrom(Tail(seq), seen \cup {Head(seq)})

UrlColumn(rs) == [i \in DOMAIN rs |-> rs[i].image_url]
DropNa(seq) == SelectSeq(seq, LAMBDA x : x # NaN)
NoDedup(seq) == seq
\* .unique(): the distinct values, in the order of first appearance
Unique(seq) == UniqueFrom(seq, {})

\* an empty cell of the CSV for None and for a URL the dict does not hold
CsvCell(m, url) == IF url \in DOMAIN m /\ m[url] # None THEN m[url] ELSE ""

OutputRowsDropNa(rs, m) ==
    LET kept == SelectSeq(rs, LAMBDA r : r.image_url # NaN)
    IN  [i \in DOMAIN kept |->
            [crop_name |-> kept[i].crop_name, image_url |-> kept[i].image_url,
             dominant_color |-> CsvCell(m, kept[i].image_url)]]
\* df["dominant_color"] = df["image_url"].map(url_to_color); df.to_csv(...)
OutputRows(rs, m) ==
    [i \in DOMAIN rs |->
        [crop_name |-> rs[i].crop_name, image_url |-> rs[i].image_url,
         dominant_color |-> CsvCell(m, rs[i].image_url)]]

\* d[u] = v
Put(d, u, v) == [x \in DOMAIN d \cup {u} |-> IF x = u THEN v ELSE d[x]]

FreshHist ==
    [u \in URLs |->
        [attempts |-> 0, net |-> 0, hit |-> FALSE, outcome |-> "pending",
         calls |-> 0, first |-> Unread, laterNet |-> 0, laterRead |-> {},
         ok2xx |-> FALSE]]
\* a new run forgets what is per run and keeps what is per cache
NextRunHist(h) ==
    [u \in URLs |->
        [h[u] EXCEPT !.attempts = 0, !.net = 0, !.hit = FALSE, !.outcome = "pending"]]

Init ==
    /\ strategy \in Strategies
    /\ LoadIdle /\ EngIdle
    /\ rows \in Inputs
    /\ unique_urls = Unique(DropNa(UrlColumn(rows)))
    /\ idx = 1
    /\ url_to_color = NoHist
    /\ pc = "loop"
    /\ dirExists = FALSE
    /\ files = [u \in URLs |-> NoFile]
    /\ resp = "none"
    /\ output = NoOutput
    /\ run = 1
    /\ hist = FreshHist
    /\ aborted = FALSE

Cur == unique_urls[idx]
InTry == {"ensure", "exists", "get", "open", "write", "read", "color"}
Frame == <<strategy, rows, unique_urls, run, aborted, loadVars, engVars>>

\* an exception of the given kind leaves download_image / dominant_color:
\* the handler records None and the loop goes on, or it leaves main()
Raise(kind) ==
    IF IsCaught(kind)
    THEN /\ url_to_color' = Put(url_to_color, Cur, None)
         /\ idx' = idx + 1
         /\ pc' = "loop"
    ELSE /\ pc' = "crashed"
         /\ UNCHANGED <<url_to_color, idx>>
Outcome(h, kind) == [h EXCEPT ![Cur].outcome = kind]

\* for url in unique_urls: try: img = download_image(url)
NextUrl ==
    /\ pc = "loop" /\ idx <= Len(unique_urls)
    /\ hist' = [hist EXCEPT ![Cur].attempts = @ + 1, ![Cur].calls = @ + 1]
    /\ pc' = "ensure"
    /\ UNCHANGED <<idx, url_to_color, dirExists, files, resp, output, Frame>>

EndLoop ==
    /\ pc = "loop" /\ idx > Len(unique_urls)
    /\ pc' = "map"
    /\ UNCHANGED <<idx, url_to_color, dirExists, files, resp, output, hist, Frame>>

\* ensure_cache(): the directory is there, or os.makedirs makes it
EnsureCache ==
    /\ pc = "ensure"
    /\ dirExists' = TRUE
    /\ pc' = "exists"
    /\ UNCHANGED <<idx, url_to_color, files, resp, output, hist, Frame>>

\* ensure_cache(): os.makedirs raises (permission denied, read-only disk)
EnsureCacheFails ==
    /\ pc = "ensure" /\ ~dirExists
    /\ Raise("cache_dir")
    /\ hist' = Outcome(hist, "cache_dir")
    /\ UNCHANGED <<dirExists, files, resp, output, Frame>>

\* if not os.path.exists(path)
Exists ==
    /\ pc = "exists"
    /\ hist' = [hist EXCEPT ![Cur].hit = (files[Cur] # NoFile)]
    /\ pc' = IF NeedsFetch(files, Cur) THEN "get" ELSE "read"
    /\ UNCHANGED <<idx, url_to_color, dirExists, files, resp, output, Frame>>

Requested(h) ==
    [h EXCEPT ![Cur].net = @ + 1,
              ![Cur].laterNet = IF h[Cur].calls > 1 THEN @ + 1 ELSE @]

\* whether some request for the URL has returned a 2xx status (bookkeeping over
\* all runs); a timeout, a connection failure or a non-2xx status leaves it
Answered(h, r) ==
    IF r \in Bodies THEN [h EXCEPT ![Cur].ok2xx = TRUE] ELSE h

FilesAfterGetStoresError(fs, u, r) ==
    IF r = "http_error" THEN [fs EXCEPT ![u] = Prefix("corrupt", FullLen)] ELSE fs
\* the cache files after requests.get and raise_for_status: neither writes;
\* the file is opened only on the line after them
FilesAfterGet(fs, u, r) == fs

\* requests.get(url, timeout=30); resp.raise_for_status()
Get ==
    /\ pc = "get"
    /\ \E r \in Responses :
         /\ files' = FilesAfterGet(files, Cur, r)
         /\ IF r \in Bodies
            THEN /\ resp' = r
                 /\ pc' = "open"
                 /\ hist' = Answered(Requested(hist), r)
                 /\ UNCHANGED <<idx, url_to_color>>
            ELSE /\ Raise("network")
                 /\ hist' = Outcome(Answered(Requested(hist), r), "network")
                 /\ resp' = resp
    /\ UNCHANGED <<dirExists, output, Frame>>

\* open(path, "wb"): the file is created empty
OpenWrite ==
    /\ pc = "open"
    /\ files' = [files EXCEPT ![Cur] = Empty]
    /\ pc' = "write"
    /\ UNCHANGED <<idx, url_to_color, dirExists, resp, output, hist, Frame>>

\* open(path, "wb") raises: nothing is created
OpenWriteFails ==
    /\ pc = "open"
    /\ Raise("cache_write")
    /\ hist' = Outcome(hist, "cache_write")
    /\ resp' = "none"
    /\ UNCHANGED <<dirExists, files, output, Frame>>

\* f.write(resp.content) and the close of the with block
Write ==
    /\ pc = "write"
    /\ files' = [files EXCEPT ![Cur] = Prefix(resp, FullLen)]
    /\ pc' = "read"
    /\ resp' = "none"
    /\ UNCHANGED <<idx, url_to_color, dirExists, output, hist, Frame>>

\* f.write raises part-way (disk full): what was written stays
WriteFails ==
    /\ pc = "write"
    /\ \E n \in 0..(FullLen - 1) : files' = [files EXCEPT ![Cur] = Prefix(resp, n)]
    /\ Raise("cache_write")
    /\ hist' = Outcome(hist, "cache_write")
    /\ resp' = "none"
    /\ UNCHANGED <<dirExists, output, Frame>>

HasRead(h, content) ==
    IF h[Cur].calls = 1
    THEN [h EXCEPT ![Cur].first = content]
    ELSE [h EXCEPT ![Cur].laterRead = @ \cup {content}]

\* open(path, "rb"), f.read(), Image.open(...), the conversion to RGB
Read ==
    /\ pc = "read"
    /\ IF Decodable(files[Cur])
       THEN /\ pc' = "color"
            /\ hist' = HasRead(hist, files[Cur])
            /\ UNCHANGED <<idx, url_to_color>>
       ELSE /\ Raise("decode")
            /\ hist' = Outcome(HasRead(hist, files[Cur]), "decode")
    /\ UNCHANGED <<dirExists, files, resp, output, Frame>>

\* open(path, "rb") or f.read() raises
ReadFails ==
    /\ pc = "read"
    /\ Raise("cache_read")
    /\ hist' = Outcome(hist, "cache_read")
    /\ UNCHANGED <<dirExists, files, resp, output, Frame>>

\* url_to_color[url] = dominant_color(img)
Color ==
    /\ pc = "color"
    /\ \E hex \in DominantColors(strategy, ImagePixels(files[Cur].body)) :
         url_to_color' = Put(url_to_color, Cur, hex)
    /\ idx' = idx + 1
    /\ pc' = "loop"
    /\ hist' = Outcome(hist, "ok")
    /\ UNCHANGED <<dirExists, files, resp, output, Frame>>

\* dominant_color raises an Exception (resize, k-means)
ColorFails ==
    /\ pc = "color"
    /\ Raise("cluster")
    /\ hist' = Outcome(hist, "cluster")
    /\ UNCHANGED <<dirExists, files, resp, output, Frame>>

\* the run is terminated inside the try (KeyboardInterrupt, SystemExit, a kill):
\* that is no Exception, so main() ends there; a write in progress leaves
\* what it had written
Interrupt ==
    /\ pc \in InTry
    /\ IF pc = "write"
       THEN \E n \in 0..(FullLen - 1) : files' = [files EXCEPT ![Cur] = Prefix(resp, n)]
       ELSE files' = files
    /\ Raise("interrupt")
    /\ hist' = Outcome(hist, "interrupt")
    /\ resp' = "none"
    /\ UNCHANGED <<dirExists, output, Frame>>

\* df["dominant_color"] = ...; df.to_csv(output_path, index=False)
WriteOutput ==
    /\ pc = "map"
    /\ output' = [written |-> TRUE, rows |-> OutputRows(rows, url_to_color)]
    /\ pc' = "done"
    /\ UNCHANGED <<idx, url_to_color, dirExists, files, resp, hist, Frame>>

\* the script is run again on the same input over the same cache directory
NewRun ==
    /\ pc \in {"done", "crashed"} /\ run < MaxRuns
    /\ run' = run + 1
    /\ aborted' = (aborted \/ pc # "done")
    /\ hist' = NextRunHist(hist)
    /\ idx' = 1 /\ url_to_color' = NoHist /\ pc' = "loop"
    /\ resp' = "none" /\ output' = NoOutput
    /\ UNCHANGED <<strategy, rows, unique_urls, dirExists, files, loadVars, engVars>>

Next ==
    \/ NextUrl \/ EndLoop
    \/ EnsureCache \/ EnsureCacheFails
    \/ Exists \/ Get
    \/ OpenWrite \/ OpenWriteFails \/ Write \/ WriteFails
    \/ Read \/ ReadFails
    \/ Color \/ ColorFails
    \/ Interrupt
    \/ WriteOutput \/ NewRun

Spec == Init /\ [][Next]_vars

(***************************************************************************)
(* Properties of main() and of the cache.                                  *)
(***************************************************************************)
InputUrls == {rows[i].image_url : i \in DOMAIN rows} \ {NaN}
Hexes == DominantColors(strategy, ImagePixels("redgray"))
LoopOver == pc \in {"map", "done"}

\* C1 as claimed: whatever the first download_image(url) did, a later one makes
\* no network call and reads the bytes the first one read.
C1_SecondCallNoNetwork ==
    \A u \in URLs :
        /\ hist[u].laterNet = 0
        /\ hist[u].laterRead \subseteq {hist[u].first}

\* C1 amended: once the first download_image(url) has read the cache file (a
\* cache hit, or a 2xx fetch written in full), every later one makes no
\* network call and, when it reads the file, reads the same bytes.
C1_CacheIdempotent ==
    \A u \in URLs :
        hist[u].first # Unread =>
            /\ hist[u].laterNet = 0
            /\ hist[u].laterRead \subseteq {hist[u].first}

C1_Witness ==
    \E u \in URLs :
        /\ run = 2 /\ hist[u].calls = 2
        /\ hist[u].first = Prefix("corrupt", FullLen)
        /\ hist[u].laterRead = {hist[u].first}
        /\ hist[u].hit /\ hist[u].net = 0

\* C2: a network, decode or clustering failure of one URL never ends the run;
\* when the loop is over every distinct non-missing URL was attempted and
\* url_to_color holds exactly these URLs, a hex colour for each that succeeded
\* and None for each that failed.
C2_FailuresNeverAbort ==
    /\ pc = "crashed" => hist[Cur].outcome \notin PerUrlFailures
    /\ LoopOver =>
        /\ DOMAIN url_to_color = InputUrls
        /\ \A u \in InputUrls :
            /\ hist[u].attempts = 1
            /\ hist[u].outcome # "pending"
            /\ url_to_color[u] = None <=> hist[u].outcome # "ok"
            /\ url_to_color[u] # None => url_to_color[u] \in Hexes

C2_Witness ==
    /\ pc = "done" /\ Len(unique_urls) = 2
    /\ hist[unique_urls[1]].outcome = "network"
    /\ hist[unique_urls[2]].outcome = "ok"
    /\ url_to_color[unique_urls[1]] = None
    /\ url_to_color[unique_urls[2]] \in Hexes

\* C3 as claimed: a cache-store fault on one URL leaves main(): the run fails,
\* the URL gets no entry and no output is written.
C3_CacheFaultPropagates ==
    \A u \in URLs :
        hist[u].outcome \in CacheFaults =>
            /\ pc = "crashed"
            /\ u \notin DOMAIN url_to_color
            /\ ~output.written

\* C3 amended: a cache-store fault on one URL is caught per URL like any other
\* Exception: the URL gets None, it is not what ends a run, and the output that
\* is written has an empty dominant_color on its rows.
C3_CacheFaultCaught ==
    \A u \in URLs :
        hist[u].outcome \in CacheFaults =>
            /\ u \in DOMAIN url_to_color /\ url_to_color[u] = None
            /\ pc \in InTry \cup {"crashed"} => Cur # u
            /\ pc = "done" =>
                /\ output.written
                /\ \A i \in DOMAIN rows :
                     rows[i].image_url = u => output.rows[i].dominant_color = ""

C3_Witness ==
    /\ pc = "done" /\ output.written /\ Len(unique_urls) = 2
    /\ hist[unique_urls[1]].outcome = "cache_write"
    /\ hist[unique_urls[2]].outcome = "ok"
    /\ url_to_color[unique_urls[1]] = None

\* C4: after a run was terminated, in every later run each cache file that
\* exists (and is not being written right now) holds the whole body of one
\* successful fetch, and a cached URL fails to decode only if that body is no
\* image.
C4_ResumeSafe ==
    aborted =>
        \A u \in URLs :
            /\ (files[u] # NoFile /\ ~(pc = "write" /\ Cur = u)) =>
                   files[u].len = FullLen
            /\ (hist[u].hit /\ hist[u].outcome = "decode") =>
                   files[u].body = "corrupt"

\* C5: the output has the rows of the input, in order, with the input columns
\* unchanged; dominant_color is empty on a row without URL and on a row whose
\* URL failed, and is the URL's hex colour on a row whose URL succeeded.
C5_SchemaIntegrity ==
    pc = "done" =>
        /\ output.written
        /\ Len(output.rows) = Len(rows)
        /\ \A i \in DOMAIN rows :
            LET url == rows[i].image_url
                cell == output.rows[i].dominant_color
            IN  /\ output.rows[i].crop_name = rows[i].crop_name
                /\ output.rows[i].image_url = url
                /\ url = NaN => cell = ""
                /\ (url # NaN /\ hist[url].outcome # "ok") => cell = ""
                /\ (url # NaN /\ hist[url].outcome = "ok") =>
                       cell \in Hexes /\ cell = url_to_color[url]

C5_Witness ==
    /\ pc = "done" /\ Len(rows) = 2 /\ Len(output.rows) = 2
    /\ rows[1].image_url = NaN /\ output.rows[1].dominant_color = ""
    /\ rows[2].image_url # NaN /\ output.rows[2].dominant_color \in Hexes

\* C6: in one run every distinct URL is attempted once and requested from the
\* network at most once; the loop walks de-duplicated URLs, and a URL whose
\* cache file exists is not requested at all.
C6_AttemptedOnce ==
    /\ \A i, j \in DOMAIN unique_urls : i # j => unique_urls[i] # unique_urls[j]
    /\ \A u \in URLs :
        /\ hist[u].attempts <= 1
        /\ hist[u].net <= hist[u].attempts
        /\ hist[u].hit => hist[u].net = 0
        /\ LoopOver => hist[u].attempts = IF u \in InputUrls THEN 1 ELSE 0

C6_Witness ==
    /\ pc = "done" /\ Len(rows) = 2
    /\ rows[1].image_url = rows[2].image_url /\ rows[1].image_url # NaN
    /\ hist[rows[1].image_url].attempts = 1
    /\ hist[rows[1].image_url].net = 1

\* C11: a request that times out, fails to connect or returns a non-2xx status
\* creates no cache file and alters none; a cache file exists for a URL only if
\* some fetch of it returned 2xx; and a URL none of whose fetches returned 2xx
\* is requested from the network again whenever a run reaches it.
C11_FailedFetchLeavesCache ==
    /\ [](\A u \in URLs : files[u] # NoFile => hist[u].ok2xx)
    /\ [][(pc = "get" /\ hist'[Cur].outcome = "network") =>
              (files' = files /\ files[Cur] = NoFile)]_vars
    /\ [][(pc = "exists" /\ ~hist[Cur].ok2xx /\ pc' # "crashed")
              => (pc' = "get" /\ files' = files)]_vars

\* the first run ended normally without a 2xx answer for the URL; the second run
\* requested it again, the request failed, and there is still no cache file
C11_Witness ==
    \E u \in URLs :
        /\ run = 2 /\ ~aborted /\ hist[u].calls = 2
        /\ hist[u].net = 1 /\ hist[u].laterNet = 1 /\ ~hist[u].hit
        /\ hist[u].outcome = "network" /\ ~hist[u].ok2xx
        /\ files[u] = NoFile

====
